---- MODULE Spec2Model ----
(***************************************************************************)
(* JsonToJackson (src/main.py): the structural analysis that infers a      *)
(* class model from a parsed JSON document.                                *)
(*                                                                         *)
(* Python strings are sequences of one-character strings, so that the      *)
(* case conversions, split('_') and rstrip('s') are computed character by  *)
(* character.  A JSON value is a tagged record; a Python dict is the       *)
(* sequence of its (key, value) pairs in insertion order, keys distinct.   *)
(* The Java type text returned by get_java_type is kept as a descriptor:   *)
(* Prim("String") is the text "String", ListOf(T) the text "List<T>" and   *)
(* Ref(name) the bare class name.                                          *)
(***************************************************************************)
EXTENDS Integers, Sequences, FiniteSets, TLC

(* ------------------------------ strings ------------------------------- *)

Upper(c) ==
  CASE c = "a" -> "A" [] c = "b" -> "B" [] c = "r" -> "R" [] c = "s" -> "S"
    [] OTHER -> c

Lower(c) ==
  CASE c = "A" -> "a" [] c = "B" -> "b" [] c = "R" -> "r" [] c = "S" -> "s"
    [] OTHER -> c

\* str.capitalize(): first character upper-cased, the rest lower-cased
capitalize(w) ==
  IF w = <<>> THEN <<>>
  ELSE <<Upper(w[1])>> \o [i \in 1..(Len(w) - 1) |-> Lower(w[i + 1])]

RECURSIVE split(_)
\* str.split('_'): the components between underscores, empty ones included
split(s) ==
  IF \A i \in 1..Len(s) : s[i] # "_" THEN <<s>>
  ELSE LET p == CHOOSE i \in 1..Len(s) :
                  s[i] = "_" /\ \A j \in 1..(i - 1) : s[j] # "_"
       IN <<SubSeq(s, 1, p - 1)>> \o split(SubSeq(s, p + 1, Len(s)))

RECURSIVE join(_)
join(ws) == IF ws = <<>> THEN <<>> ELSE Head(ws) \o join(Tail(ws))

to_camel_case(snake_str) ==
  LET components == split(snake_str)
  IN components[1]
       \o join([i \in 1..(Len(components) - 1) |-> capitalize(components[i + 1])])

to_pascal_case(snake_str) ==
  LET components == split(snake_str)
  IN join([i \in 1..Len(components) |-> capitalize(components[i])])

RECURSIVE rstrip_s(_)
\* str.rstrip('s'): every trailing 's' is removed
rstrip_s(s) ==
  IF s # <<>> /\ s[Len(s)] = "s" THEN rstrip_s(SubSeq(s, 1, Len(s) - 1)) ELSE s

(* ---------------------------- JSON values ----------------------------- *)

JNull == [t |-> "null"]
JBool(b) == [t |-> "bool", b |-> b]
JInt(n) == [t |-> "int", n |-> n]
JFloat(w, f) == [t |-> "float", w |-> w, f |-> f]
JStr(s) == [t |-> "str", s |-> s]
JList(items) == [t |-> "list", items |-> items]
JObj(kv) == [t |-> "dict", kv |-> kv]

\* isinstance(value, ...): a Python bool is also an int
IsStr(v) == v.t = "str"
IsBool(v) == v.t = "bool"
IsInt(v) == v.t \in {"int", "bool"}
IsFloat(v) == v.t = "float"
IsList(v) == v.t = "list"
IsDict(v) == v.t = "dict"

(* ------------------------- ISO date and time -------------------------- *)

Digits == {"0", "1", "2", "3", "4", "5", "6", "7", "8", "9"}

DigitVal(c) ==
  CASE c = "0" -> 0 [] c = "1" -> 1 [] c = "2" -> 2 [] c = "3" -> 3
    [] c = "4" -> 4 [] c = "5" -> 5 [] c = "6" -> 6 [] c = "7" -> 7
    [] c = "8" -> 8 [] c = "9" -> 9

AllDigits(s) == \A i \in 1..Len(s) : s[i] \in Digits

RECURSIVE Num(_)
Num(s) == IF s = <<>> THEN 0 ELSE 10 * Num(SubSeq(s, 1, Len(s) - 1)) + DigitVal(s[Len(s)])

IsLeap(y) == (y % 4 = 0 /\ y % 100 # 0) \/ y % 400 = 0

DaysInMonth(y, m) ==
  IF m = 2 THEN (IF IsLeap(y) THEN 29 ELSE 28)
  ELSE IF m \in {4, 6, 9, 11} THEN 30 ELSE 31

\* date.fromisoformat, extended format YYYY-MM-DD
IsoDate(s) ==
  /\ Len(s) = 10
  /\ s[5] = "-" /\ s[8] = "-"
  /\ AllDigits(SubSeq(s, 1, 4)) /\ AllDigits(SubSeq(s, 6, 7)) /\ AllDigits(SubSeq(s, 9, 10))
  /\ LET y == Num(SubSeq(s, 1, 4))
         m == Num(SubSeq(s, 6, 7))
         d == Num(SubSeq(s, 9, 10))
     IN y >= 1 /\ m \in 1..12 /\ d >= 1 /\ d <= DaysInMonth(y, m)

\* time.fromisoformat, extended format HH[:MM[:SS]]
IsoTime(s) ==
  /\ Len(s) \in {2, 5, 8}
  /\ AllDigits(SubSeq(s, 1, 2)) /\ Num(SubSeq(s, 1, 2)) <= 23
  /\ Len(s) >= 5 =>
       s[3] = ":" /\ AllDigits(SubSeq(s, 4, 5)) /\ Num(SubSeq(s, 4, 5)) <= 59
  /\ Len(s) >= 8 =>
       s[6] = ":" /\ AllDigits(SubSeq(s, 7, 8)) /\ Num(SubSeq(s, 7, 8)) <= 59

\* datetime.fromisoformat: a date, optionally one separator character and a time
IsoDateTime(s) ==
  \/ IsoDate(s)
  \/ /\ Len(s) >= 12
     /\ IsoDate(SubSeq(s, 1, 10))
     /\ IsoTime(SubSeq(s, 12, Len(s)))

\* variant: the date check accepts whatever the date-time grammar accepts
date_valid_Loose(value) == IsStr(value) /\ IsoDateTime(value.s)

\* a non-string argument makes fromisoformat raise TypeError, caught by except
date_valid(value) == IsStr(value) /\ IsoDate(value.s)

datetime_valid(value) == IsStr(value) /\ IsoDateTime(value.s)

time_valid(value) == IsStr(value) /\ IsoTime(value.s)

(* -------------------------- type inference ---------------------------- *)

Prim(name) == [k |-> name]
ListOf(elem) == [k |-> "List", elem |-> elem]
Ref(name) == [k |-> "Ref", name |-> name]

RECURSIVE get_java_type(_, _)
get_java_type(value, field_name) ==
  IF value = JNull THEN Prim("String")
  ELSE IF date_valid(value) THEN Prim("LocalDate")
  ELSE IF time_valid(value) THEN Prim("LocalTime")
  ELSE IF datetime_valid(value) THEN Prim("LocalDateTime")
  ELSE IF IsBool(value) THEN Prim("Boolean")
  ELSE IF IsInt(value) THEN Prim("Integer")
  ELSE IF IsFloat(value) THEN Prim("Double")
  ELSE IF IsStr(value) THEN Prim("String")
  ELSE IF IsList(value) THEN
    IF Len(value.items) = 0 THEN ListOf(Prim("String"))
    ELSE LET first_element == value.items[1]
         IN IF IsDict(first_element)
            THEN ListOf(Ref(to_pascal_case(rstrip_s(field_name))))
            ELSE ListOf(get_java_type(first_element, <<>>))
  ELSE IF IsDict(value) THEN Ref(to_pascal_case(field_name))
  ELSE Prim("String")

(* ------------------------------ inputs -------------------------------- *)

\* longest array generated element by element
MaxElems == 3

\* number of calls of analyze_json_structure in one behaviour of SpecRuns
MaxRuns == 3

kA == <<"a">>
kB == <<"b">>
kAs == <<"a", "s">>
kSs == <<"s", "s">>
kBss == <<"b", "s", "s">>
kA_B == <<"a", "_", "b">>
kAB == <<"a", "B">>

I1 == JInt(1)
SX == JStr(<<"h", "i">>)
SDate == JStr(<<"2", "0", "2", "4", "-", "0", "1", "-", "1", "5">>)
STime == JStr(<<"1", "3", ":", "4", "5", ":", "0", "0">>)
SDateTime == JStr(<<"2", "0", "2", "4", "-", "0", "1", "-", "1", "5", "T", "1", "3", ":", "4", "5", ":", "0", "0">>)
SBadDate == JStr(<<"2", "0", "2", "3", "-", "0", "2", "-", "3", "0">>)

Scalars ==
  {JNull, JBool(TRUE), JBool(FALSE), I1, JFloat(1, 5), SX, SDate, STime, SDateTime, SBadDate}

O1(k, v) == JObj(<<[k |-> k, v |-> v]>>)
O2(k1, v1, k2, v2) == JObj(<<[k |-> k1, v |-> v1], [k |-> k2, v |-> v2]>>)

Elems == {I1, O1(kA, I1), O1(kA, SX), O1(kB, I1)}

ElemSeqs == UNION {[1..n -> Elems] : n \in 1..MaxElems}

NestedDocs ==
  { O1(kA, O1(kB, I1)),
    O2(kA, O1(kB, I1), kAs, JList(<<O1(kA, SX)>>)),
    O2(kA, O1(kB, I1), kB, O1(kA, O1(kA, SX))),
    O2(kAs, JList(<<O1(kB, I1)>>), kA, O1(kB, SX)),
    O1(kAs, JList(<<JList(<<O1(kA, I1)>>)>>)),
    O1(kAs, JList(<<JList(<<I1>>)>>)),
    O1(kAs, JList(<<JList(<<>>)>>)),
    O1(kAs, JList(<<JObj(<<>>), O1(kA, I1)>>)),
    O1(kB, JList(<<JList(<<O1(kAs, JList(<<O1(kA, I1)>>))>>)>>)),
    O1(kB, JList(<<I1, O1(kAs, JList(<<O1(kA, I1)>>))>>)),
    O1(kB, O1(kAs, JList(<<O1(kA, I1), O1(kB, SX)>>))),
    O1(kAs, JList(<<O1(kAs, JList(<<O1(kA, I1), O1(kB, I1)>>))>>)),
    JList(<<O1(kAs, JList(<<O1(kA, I1), O1(kB, I1)>>)), O1(kA, O1(kB, I1))>>),
    JList(<<JList(<<O1(kA, I1)>>)>>),
    JList(<<JObj(<<>>), O1(kA, I1)>>) }

Docs ==
  Scalars \cup {JList(<<>>), JObj(<<>>)}
    \cup {JList(s) : s \in ElemSeqs}
    \cup {O1(kA_B, v) : v \in Scalars \cup {JList(<<>>), JObj(<<>>)}}
    \cup {O1(kAs, JList(s)) : s \in ElemSeqs}
    \cup {O1(k, JList(<<O1(kA, I1)>>)) : k \in {kA, kB, kSs, kBss, kA_B, kAB}}
    \cup {O2(kA_B, v1, kAB, v2) : v1 \in {I1, SX}, v2 \in {I1, SX}}
    \cup {O2(kAB, v1, kA_B, v2) : v1 \in {I1, SX}, v2 \in {I1, SX}}
    \cup NestedDocs

RootNames == {<<"R", "o", "o", "t">>, <<"A">>}

\* documents of the repeated calls
RunDocs ==
  { I1, JObj(<<>>), O1(kA, I1), O1(kA, SX), O1(kB, O1(kA, I1)),
    O1(kAs, JList(<<O1(kA, I1), O1(kB, SX)>>)),
    JList(<<O1(kA, I1)>>), JList(<<O1(kB, I1), I1, O1(kA, SX)>>) }

(* ------------------------------- state -------------------------------- *)

VARIABLES
  data,        \* argument data of the current call
  class_name,  \* argument class_name of the current call
  classes,     \* the dict classes: sequence of [name, fields], fields a
               \* sequence of [name, type, original_name], in insertion order
  stack,       \* call stack of analyze_object and of the loops over elements
  pc,          \* "idle", "walk", "done" or "raised"
  log,         \* history: the field writes of the current call, in order
  visits,      \* history: the analyze_object calls of the current call
  runs,        \* number of calls started
  ref,         \* history: input and result of the first call that returned
  mixed        \* history: a call on another input followed the one in ref

vars == <<data, class_name, classes, stack, pc, log, visits, runs, ref, mixed>>

ClassNames(cs) == {cs[i].name : i \in 1..Len(cs)}

ClassOf(cs, n) == cs[CHOOSE i \in 1..Len(cs) : cs[i].name = n]

FieldNames(fs) == {fs[i].name : i \in 1..Len(fs)}

FieldOf(fs, f) == fs[CHOOSE i \in 1..Len(fs) : fs[i].name = f]

\* variant: the class entry is emptied on every entry of analyze_object
ensure_class_Reset(cs, n) ==
  IF n \in ClassNames(cs)
  THEN [i \in 1..Len(cs) |-> IF cs[i].name = n THEN [cs[i] EXCEPT !.fields = <<>>] ELSE cs[i]]
  ELSE Append(cs, [name |-> n, fields |-> <<>>])

\* if current_class_name not in classes: classes[current_class_name] = {}
ensure_class(cs, n) ==
  IF n \in ClassNames(cs) THEN cs ELSE Append(cs, [name |-> n, fields |-> <<>>])

\* variant: a field already present keeps its first descriptor
put_field_KeepFirst(fs, f, type, key) ==
  IF f \in FieldNames(fs)
  THEN fs
  ELSE Append(fs, [name |-> f, type |-> type, original_name |-> key])

\* classes[current_class_name][java_field_name] = {...}: a dict assignment
\* replaces the value of an existing key in place and appends a new key
put_field(fs, f, type, key) ==
  LET d == [name |-> f, type |-> type, original_name |-> key]
  IN IF f \in FieldNames(fs)
     THEN [i \in 1..Len(fs) |-> IF fs[i].name = f THEN d ELSE fs[i]]
     ELSE Append(fs, d)

set_field(cs, n, f, type, key) ==
  [i \in 1..Len(cs) |->
     IF cs[i].name = n
     THEN [cs[i] EXCEPT !.fields = put_field(@, f, type, key)]
     ELSE cs[i]]

ObjFrame(obj, cls, src) == [f |-> "obj", obj |-> obj, cls |-> cls, i |-> 0, src |-> src]

ItemsFrame(items, cls, src) == [f |-> "items", items |-> items, cls |-> cls, j |-> 2, src |-> src]

\* analyze_object(first_element, name) followed by the loop over value[1:]
ElementFrames(items, cls, src) ==
  <<ItemsFrame(items, cls, src), ObjFrame(items[1], cls, src)>>

\* variant: only the first element of a root list is analyzed
RootFrames_FirstOnly(d, c) ==
  IF IsDict(d) THEN <<ObjFrame(d, c, 0)>>
  ELSE IF IsList(d) /\ d.items # <<>> THEN
    (IF IsDict(d.items[1]) THEN <<ObjFrame(d.items[1], c, 0)>> ELSE <<>>)
  ELSE <<>>

\* the dispatch on the root value
RootFrames(d, c) ==
  IF IsDict(d) THEN <<ObjFrame(d, c, 0)>>
  ELSE IF IsList(d) /\ d.items # <<>> THEN
    (IF IsDict(d.items[1]) THEN ElementFrames(d.items, c, 0) ELSE <<>>)
  ELSE <<>>

\* variant: only the first element of a list field is analyzed
NestedFrames_FirstOnly(key, value, src) ==
  IF IsDict(value) /\ value.kv # <<>> THEN <<ObjFrame(value, to_pascal_case(key), src)>>
  ELSE IF IsList(value) /\ value.items # <<>> THEN
    (IF IsDict(value.items[1])
       THEN <<ObjFrame(value.items[1], to_pascal_case(rstrip_s(key)), src)>>
       ELSE <<>>)
  ELSE <<>>

\* the recursion spawned by one field
NestedFrames(key, value, src) ==
  IF IsDict(value) /\ value.kv # <<>> THEN <<ObjFrame(value, to_pascal_case(key), src)>>
  ELSE IF IsList(value) /\ value.items # <<>> THEN
    (IF IsDict(value.items[1])
       THEN ElementFrames(value.items, to_pascal_case(rstrip_s(key)), src)
       ELSE <<>>)
  ELSE <<>>

\* variant: the element loop analyzes every element without looking at its type
ItemFrames_NoCheck(item, cls, src) == <<ObjFrame(item, cls, src)>>

\* the element loop: a dict element is analyzed, any other element is skipped
ItemFrames(item, cls, src) ==
  IF IsDict(item) THEN <<ObjFrame(item, cls, src)>> ELSE <<>>

Top == stack[Len(stack)]

Init ==
  /\ data = JNull
  /\ class_name = <<>>
  /\ classes = <<>>
  /\ stack = <<>>
  /\ pc = "idle"
  /\ log = <<>>
  /\ visits = <<>>
  /\ runs = 0
  /\ ref = <<>>
  /\ mixed = FALSE

\* variant: the dict outlives the call
NewClasses_Ambient(old) == old

\* the dict a call starts from
NewClasses(old) == <<>>

\* analyze_json_structure(d, c): classes = {} and the dispatch on the root
Invoke(d, c) ==
  /\ data' = d
  /\ class_name' = c
  /\ classes' = NewClasses(classes)
  /\ stack' = RootFrames(d, c)
  /\ pc' = "walk"
  /\ log' = <<>>
  /\ visits' = <<>>
  /\ runs' = runs + 1
  /\ mixed' = (mixed \/ (ref # <<>> /\ <<d, c>> # <<ref[1], ref[2]>>))
  /\ UNCHANGED ref

Call ==
  /\ pc = "idle"
  /\ \E d \in Docs, c \in RootNames : Invoke(d, c)

\* a further call in the same process, after an earlier one returned
Recall ==
  /\ pc \in {"idle", "done"}
  /\ runs < MaxRuns
  /\ \E d \in RunDocs, c \in RootNames : Invoke(d, c)

\* entry of analyze_object: the class entry is created unless present
Enter ==
  /\ pc = "walk" /\ stack # <<>>
  /\ Top.f = "obj" /\ Top.i = 0
  /\ classes' = ensure_class(classes, Top.cls)
  /\ visits' = Append(visits, [cls |-> Top.cls, obj |-> Top.obj, src |-> Top.src])
  /\ stack' = [stack EXCEPT ![Len(stack)].i = 1]
  /\ pc' = IF IsDict(Top.obj) THEN "walk" ELSE "raised"
  /\ UNCHANGED <<data, class_name, log, runs, ref, mixed>>

\* one iteration of the loop over obj.items()
VisitField ==
  /\ pc = "walk" /\ stack # <<>>
  /\ Top.f = "obj" /\ Top.i >= 1 /\ Top.i <= Len(Top.obj.kv)
  /\ LET key == Top.obj.kv[Top.i].k
         value == Top.obj.kv[Top.i].v
         java_field_name == to_camel_case(key)
         java_type == get_java_type(value, key)
     IN /\ classes' = set_field(classes, Top.cls, java_field_name, java_type, key)
        /\ log' = Append(log, [cls |-> Top.cls, field |-> java_field_name,
                               type |-> java_type, key |-> key, value |-> value])
        /\ stack' = [stack EXCEPT ![Len(stack)].i = @ + 1]
                      \o NestedFrames(key, value, Len(log) + 1)
  /\ UNCHANGED <<data, class_name, pc, visits, runs, ref, mixed>>

\* one iteration of the loop over the elements after the first
NextItem ==
  /\ pc = "walk" /\ stack # <<>>
  /\ Top.f = "items" /\ Top.j <= Len(Top.items)
  /\ stack' = [stack EXCEPT ![Len(stack)].j = @ + 1]
                \o ItemFrames(Top.items[Top.j], Top.cls, Top.src)
  /\ UNCHANGED <<data, class_name, classes, pc, log, visits, runs, ref, mixed>>

\* a loop is exhausted: analyze_object returns, or the element loop ends
Return ==
  /\ pc = "walk" /\ stack # <<>>
  /\ \/ Top.f = "obj" /\ Top.i > Len(Top.obj.kv)
     \/ Top.f = "items" /\ Top.j > Len(Top.items)
  /\ stack' = SubSeq(stack, 1, Len(stack) - 1)
  /\ UNCHANGED <<data, class_name, classes, pc, log, visits, runs, ref, mixed>>

\* return classes
Finish ==
  /\ pc = "walk" /\ stack = <<>>
  /\ pc' = "done"
  /\ ref' = IF ref = <<>> THEN <<data, class_name, classes>> ELSE ref
  /\ UNCHANGED <<data, class_name, classes, stack, log, visits, runs, mixed>>

Next == Call \/ Enter \/ VisitField \/ NextItem \/ Return \/ Finish

Spec == Init /\ [][Next]_vars

NextRuns == Recall \/ Enter \/ VisitField \/ NextItem \/ Return \/ Finish

SpecRuns == Init /\ [][NextRuns]_vars

\* analyze_json_structure returns under weak fairness of its own steps
FairSpec == Spec /\ WF_vars(Next)

Done == pc = "done"

(* ---------------------- vocabulary of the properties ------------------ *)

HasField(cs, n, f) == n \in ClassNames(cs) /\ f \in FieldNames(ClassOf(cs, n).fields)

\* a non-empty list whose first element is an object
ListOfObjects(v) == IsList(v) /\ v.items # <<>> /\ IsDict(v.items[1])

DictElems(items) == {items[i] : i \in {j \in 1..Len(items) : IsDict(items[j])}}

Keys(o) == {o.kv[i].k : i \in 1..Len(o.kv)}

RECURSIVE AllFields(_)
\* every (key, value) pair of the document, at any depth
AllFields(v) ==
  IF IsDict(v)
  THEN UNION {{[k |-> v.kv[i].k, v |-> v.kv[i].v]} \cup AllFields(v.kv[i].v) :
              i \in 1..Len(v.kv)}
  ELSE IF IsList(v) THEN UNION {AllFields(v.items[i]) : i \in 1..Len(v.items)}
  ELSE {}

\* the class holds a field for every key of every object element of the list
UnionOfElements(cs, n, items) ==
  \A el \in DictElems(items) : \A k \in Keys(el) : HasField(cs, n, to_camel_case(k))

\* the objects analyzed on behalf of write n of the log (0: the root), in order
VisitsFrom(n) == SelectSeq(visits, LAMBDA x : x.src = n)

ObjsOf(vs) == [i \in 1..Len(vs) |-> vs[i].obj]

RECURSIVE BaseType(_)
\* the element type under every List<...>
BaseType(t) == IF t.k = "List" THEN BaseType(t.elem) ELSE t

\* removal of one trailing plural 's'
StripPlural(s) ==
  IF s # <<>> /\ s[Len(s)] = "s" THEN SubSeq(s, 1, Len(s) - 1) ELSE s

(* -------------------------------- C1 ---------------------------------- *)

\* C1 as stated: when the call has returned, for every field of the
\* document, at any nesting depth, whose value is a non-empty list whose first
\* element is an object, the class named after the singularized key holds a
\* field for every key of every object element of that list.
C1_UnionAnyDepth ==
  Done =>
    \A e \in AllFields(data) :
      ListOfObjects(e.v) =>
        UnionOfElements(classes, to_pascal_case(rstrip_s(e.k)), e.v.items)

\* C1 amended: every field written so far is still in its class, and when the
\* call has returned, for every field of an object the walk visited whose
\* value is a non-empty list whose first element is an object, the class named
\* after the singularized key holds a field for every key of every object
\* element of that list.
C1_UnionVisited ==
  /\ \A n \in 1..Len(log) : HasField(classes, log[n].cls, log[n].field)
  /\ Done =>
       \A n \in 1..Len(log) :
         ListOfObjects(log[n].value) =>
           UnionOfElements(classes, to_pascal_case(rstrip_s(log[n].key)),
                           log[n].value.items)

\* a returned call that visited a list whose later element has a key the
\* first element lacks
C1_Witness ==
  /\ Done
  /\ \E n \in 1..Len(log) :
       /\ ListOfObjects(log[n].value)
       /\ \E i \in 2..Len(log[n].value.items) :
            /\ IsDict(log[n].value.items[i])
            /\ Keys(log[n].value.items[i]) \ Keys(log[n].value.items[1]) # {}

(* -------------------------------- C2 ---------------------------------- *)

\* C2: when the root is a list of objects and the call has returned, every
\* object element was analyzed under the root class name, in order, the root
\* class holds a field for every key of every element, and every class of the
\* mapping is the root class or the class of a nested field: no class stands
\* for the list itself.
C2_RootList ==
  (Done /\ ListOfObjects(data)) =>
    /\ ObjsOf(VisitsFrom(0)) = SelectSeq(data.items, IsDict)
    /\ \A i \in 1..Len(visits) : visits[i].src = 0 => visits[i].cls = class_name
    /\ UnionOfElements(classes, class_name, data.items)
    /\ classes[1].name = class_name
    /\ ClassNames(classes) =
         {class_name} \cup {visits[i].cls : i \in {j \in 1..Len(visits) : visits[j].src # 0}}

\* a returned call on a root list whose second element has a key the first lacks
C2_Witness ==
  /\ Done /\ ListOfObjects(data)
  /\ Len(data.items) >= 2 /\ IsDict(data.items[2])
  /\ Keys(data.items[2]) \ Keys(data.items[1]) # {}
  /\ Len(classes[1].fields) >= 2

(* -------------------------------- C3 ---------------------------------- *)

\* C3: in the returned mapping every object reference in a field type,
\* directly or under lists, names a class of the mapping.
C3_RefsResolve ==
  Done =>
    \A i \in 1..Len(classes) : \A j \in 1..Len(classes[i].fields) :
      LET b == BaseType(classes[i].fields[j].type)
      IN b.k = "Ref" => b.name \in ClassNames(classes)

(* -------------------------------- C4 ---------------------------------- *)

\* C4: a class has one descriptor per field name, and the descriptor carries
\* the type and source key of the last write of that field in walk order;
\* no write raises.
C4_LastSeenWins ==
  /\ pc # "raised"
  /\ \A i \in 1..Len(classes) :
       LET fs == classes[i].fields
       IN /\ Cardinality(FieldNames(fs)) = Len(fs)
          /\ \A j \in 1..Len(fs) :
               \E n \in 1..Len(log) :
                 /\ log[n].cls = classes[i].name /\ log[n].field = fs[j].name
                 /\ \A m \in (n + 1)..Len(log) :
                      ~(log[m].cls = log[n].cls /\ log[m].field = log[n].field)
                 /\ fs[j].type = log[n].type
                 /\ fs[j].original_name = log[n].key
  /\ \A n \in 1..Len(log) : HasField(classes, log[n].cls, log[n].field)

\* a returned call that wrote one field of one class twice with different types
C4_Witness ==
  /\ Done
  /\ \E m \in 1..Len(log) : \E n \in (m + 1)..Len(log) :
       /\ log[m].cls = log[n].cls /\ log[m].field = log[n].field
       /\ log[m].type # log[n].type

(* -------------------------------- C5 ---------------------------------- *)

\* C5: for a non-empty list whose first element is not an object the type is
\* the list of the type inferred for the first element with the same hint.
C5_HintPropagates ==
  \A n \in 1..Len(log) :
    LET v == log[n].value
    IN (IsList(v) /\ v.items # <<>> /\ ~IsDict(v.items[1])) =>
         log[n].type = ListOf(get_java_type(v.items[1], log[n].key))

(* -------------------------------- C6 ---------------------------------- *)

Temporal == {Prim("LocalDate"), Prim("LocalTime"), Prim("LocalDateTime")}

\* C6: every scalar value written gets the descriptor of the first rule that
\* matches it, in the order null, date, time, date-time, boolean, integer,
\* floating point, string; a boolean is never an integer and a value that is
\* not a string is never temporal.
C6_ScalarRules ==
  \A n \in 1..Len(log) :
    LET v == log[n].value
        ty == log[n].type
    IN /\ v.t = "null" => ty = Prim("String")
       /\ v.t = "str" =>
            ty = (IF IsoDate(v.s) THEN Prim("LocalDate")
                  ELSE IF IsoTime(v.s) THEN Prim("LocalTime")
                  ELSE IF IsoDateTime(v.s) THEN Prim("LocalDateTime")
                  ELSE Prim("String"))
       /\ v.t = "bool" => ty = Prim("Boolean")
       /\ v.t = "int" => ty = Prim("Integer")
       /\ v.t = "float" => ty = Prim("Double")
       /\ v.t # "str" => ty \notin Temporal

\* a returned call that inferred the type of a string that both the date and
\* the date-time grammar accept
C6_Witness ==
  /\ Done
  /\ \E n \in 1..Len(log) :
       /\ log[n].value.t = "str"
       /\ IsoDate(log[n].value.s) /\ IsoDateTime(log[n].value.s)
       /\ log[n].type = Prim("LocalDate")

(* -------------------------------- C7 ---------------------------------- *)

\* the objects the walk is to analyze on behalf of a value
Expected(v) ==
  IF IsDict(v) /\ v.kv # <<>> THEN <<v>>
  ELSE IF ListOfObjects(v) THEN SelectSeq(v.items, IsDict)
  ELSE <<>>

\* C7, safety: no step raises; a root that is neither an object nor a list
\* starting with an object returns the empty mapping; every field visited has
\* a descriptor in its class; and the objects analyzed on behalf of a field
\* are exactly the value itself when it is a non-empty object, the object
\* elements when it is a list starting with an object (the other elements are
\* skipped, the later ones still analyzed), and none otherwise.
C7_Skips ==
  /\ pc # "raised"
  /\ Done =>
       /\ (~IsDict(data) /\ ~ListOfObjects(data)) => classes = <<>>
       /\ ListOfObjects(data) => ObjsOf(VisitsFrom(0)) = SelectSeq(data.items, IsDict)
       /\ \A n \in 1..Len(log) :
            /\ HasField(classes, log[n].cls, log[n].field)
            /\ ObjsOf(VisitsFrom(n)) = Expected(log[n].value)
       /\ \A i \in 1..Len(visits) : visits[i].cls \in ClassNames(classes)

\* C7: the safety part always holds and every call returns
C7_NeverRaises == []C7_Skips /\ ((pc = "walk") ~> (pc = "done"))

\* a returned call that visited a list of objects with an element that is not
\* an object before an element that is one
C7_Witness ==
  /\ Done
  /\ \E n \in 1..Len(log) :
       LET v == log[n].value
       IN /\ ListOfObjects(v)
          /\ \E i \in 2..Len(v.items) : \E j \in (i + 1)..Len(v.items) :
               ~IsDict(v.items[i]) /\ IsDict(v.items[j])

(* -------------------------------- C8 ---------------------------------- *)

\* C8: a call on the input of the first call returns the mapping the first
\* call returned, classes and fields in the same order, whatever calls came
\* in between; and every class of a returned mapping was analyzed by that
\* call.
C8_Deterministic ==
  Done =>
    /\ (ref # <<>> /\ ref[1] = data /\ ref[2] = class_name) => classes = ref[3]
    /\ ClassNames(classes) = {visits[i].cls : i \in 1..Len(visits)}

\* a later call on the input of the first call has returned a mapping with a
\* class, after a call on another input
C8_Witness ==
  /\ Done /\ runs >= 3 /\ mixed
  /\ ref # <<>> /\ ref[1] = data /\ ref[2] = class_name
  /\ classes # <<>>

(* -------------------------------- C9 ---------------------------------- *)

\* C9: the mapping has one entry per class name, an entry keeps every field
\* written to it, and when the call has returned the field set of a class is
\* the union of the fields of all objects analyzed under its name.
C9_CollisionMerge ==
  /\ \A i \in 1..Len(classes) : \A j \in 1..Len(classes) :
       classes[i].name = classes[j].name => i = j
  /\ \A n \in 1..Len(log) : HasField(classes, log[n].cls, log[n].field)
  /\ Done =>
       \A i \in 1..Len(classes) :
         FieldNames(classes[i].fields) =
           UNION {{to_camel_case(k) : k \in Keys(visits[j].obj)} :
                  j \in {x \in 1..Len(visits) : visits[x].cls = classes[i].name}}

\* a returned call that analyzed, under one class name, objects with different
\* keys reached through different fields or through a field and the root
C9_Witness ==
  /\ Done
  /\ \E i \in 1..Len(visits) : \E j \in 1..Len(visits) :
       /\ visits[i].cls = visits[j].cls
       /\ visits[i].src # visits[j].src
       /\ Keys(visits[i].obj) \ Keys(visits[j].obj) # {}
       /\ Keys(visits[j].obj) \ Keys(visits[i].obj) # {}

(* -------------------------------- C10 --------------------------------- *)

\* C10: for a field whose value is a non-empty list whose first element is an
\* object, the class name in the field type and the class the elements are
\* analyzed under is the PascalCase of the key without its final 's', the
\* rest of the key intact.
C10_OnePluralMarker ==
  \A n \in 1..Len(log) :
    ListOfObjects(log[n].value) =>
      LET name == to_pascal_case(StripPlural(log[n].key))
      IN /\ log[n].type = ListOf(Ref(name))
         /\ \A i \in 1..Len(visits) : visits[i].src = n => visits[i].cls = name

====
